---------------------------- MODULE Spec2Model ----------------------------
(***************************************************************************)
(* A model of moviepy's ffmpeg metadata extractor                          *)
(* (moviepy/video/io/ffmpeg_parse_infos.py) and of its still-image clips   *)
(* (moviepy/video/ImageClip.py).                                           *)
(*                                                                         *)
(* Text is a sequence of symbols.  A symbol is one character ("2", "x",    *)
(* " ", ...) or one of the literal keywords of ffmpeg's output ("Video:",  *)
(* "tbr", ...), which the patterns of the code only ever match as a whole. *)
(* Python floats are modelled as exact rationals <<n, d>> in lowest terms, *)
(* Python's None as the empty tuple.                                       *)
(***************************************************************************)
EXTENDS Integers, Sequences, FiniteSets, TLC

VARIABLES
  pc,          \* position of the running call
  filename,    \* [gif : BOOLEAN]: what filename.endswith('.gif') gives
  fps_source,  \* the fps_source argument, "tbr" or "fps"
  media,       \* what the media file holds (the ground truth ffmpeg prints from)
  stderr,      \* ffmpeg's diagnostic output, a sequence of lines
  probe_out,   \* ffprobe's standard output (the frame counting fallback)
  lines_video, \* the local lines_video of ffmpeg_parse_infos
  meta,        \* the VideoMetaData record being filled
  err,         \* the exception that ended the call, or None
  called,      \* the external helpers the call has invoked
  fps_out,     \* argument and result of a direct parse_video_fps / adjust_fps call
  clip,        \* the clip under construction or transformation
  arg,         \* the arguments the clip was constructed from
  hist,        \* the image_transform calls made so far, oldest first
  evals        \* the evaluations of image_func, one <<f, buffer>> per evaluation

vars == <<pc, filename, fps_source, media, stderr, probe_out, lines_video,
          meta, err, called, fps_out, clip, arg, hist, evals>>

None == <<>>

-----------------------------------------------------------------------------
(* Numbers *)

RECURSIVE GCD(_, _)
GCD(a, b) == IF b = 0 THEN a ELSE GCD(b, a % b)

Abs(n) == IF n < 0 THEN -n ELSE n

\* The rational n/d (d > 0) in lowest terms.
Rat(n, d) ==
  LET g == GCD(Abs(n), d) IN
  IF n = 0 THEN <<0, 1>> ELSE <<n \div g, d \div g>>

Num(n) == Rat(n, 1)

RatMul(a, b) == Rat(a[1] * b[1], a[2] * b[2])
\* a / b for b > 0.
RatDiv(a, b) == Rat(a[1] * b[2], a[2] * b[1])
RatLeq(a, b) == a[1] * b[2] <= b[1] * a[2]
\* int(x) of a float x: truncation toward zero.
RatTrunc(a) == IF a[1] >= 0 THEN a[1] \div a[2] ELSE -((-a[1]) \div a[2])
\* Python truthiness of a number or None.
Truthy(a) == a # None /\ a[1] # 0

RECURSIVE Pow10(_)
Pow10(k) == IF k = 0 THEN 1 ELSE 10 * Pow10(k - 1)

-----------------------------------------------------------------------------
(* Text *)

Digit == {"0", "1", "2", "3", "4", "5", "6", "7", "8", "9"}

DigitVal(c) ==
  CASE c = "0" -> 0 [] c = "1" -> 1 [] c = "2" -> 2 [] c = "3" -> 3
    [] c = "4" -> 4 [] c = "5" -> 5 [] c = "6" -> 6 [] c = "7" -> 7
    [] c = "8" -> 8 [] c = "9" -> 9

DigitChar(v) == CHOOSE c \in Digit : DigitVal(c) = v

\* The symbols that stand for a whole literal of several characters.
Keyword == {"Video:", "Audio:", "Duration:", "frame=", "rotate          :",
            "tbr", "fps", "Hz", "No such file or directory"}

\* s[i..j-1], Python's s[i-1:j-1] (indices of the model start at 1).
Slice(s, i, j) == IF j <= i THEN <<>> ELSE SubSeq(s, i, j - 1)

\* pat occurs in s at index i.
At(s, i, pat) ==
  /\ i >= 1
  /\ i + Len(pat) - 1 <= Len(s)
  /\ \A k \in 1..Len(pat) : s[i + k - 1] = pat[k]

\* Python's `pat in s`.
Contains(s, pat) == \E i \in 1..(Len(s) + 1) : At(s, i, pat)

\* The index after the longest run of symbols of set cls that starts at i.
RECURSIVE RunEnd(_, _, _)
RunEnd(s, i, cls) ==
  IF i <= Len(s) /\ s[i] \in cls THEN RunEnd(s, i + 1, cls) ELSE i

AllIn(s, cls) == \A k \in 1..Len(s) : s[k] \in cls

\* The value of a string of decimal digits.
RECURSIVE DigitsVal(_)
DigitsVal(s) ==
  IF s = <<>> THEN 0
  ELSE 10 * DigitsVal(SubSeq(s, 1, Len(s) - 1)) + DigitVal(s[Len(s)])

\* str.strip() for the blank the model has.
RECURSIVE Strip(_)
Strip(s) ==
  IF s # <<>> /\ s[1] = " " THEN Strip(Tail(s))
  ELSE IF s # <<>> /\ s[Len(s)] = " " THEN Strip(SubSeq(s, 1, Len(s) - 1))
  ELSE s

\* Python's int(s) on text: [ok |-> FALSE] stands for ValueError.
PyInt(s) ==
  LET t == Strip(s) IN
  IF t # <<>> /\ AllIn(t, Digit) THEN [ok |-> TRUE, val |-> DigitsVal(t)]
  ELSE [ok |-> FALSE]

\* Python's float(s) on text made of digits and points.
PyFloat(s) ==
  LET t == Strip(s)
      p == RunEnd(t, 1, Digit)      \* index of the first non-digit
      ip == Slice(t, 1, p)
      fp == Slice(t, p + 1, Len(t) + 1)
  IN
  IF t # <<>> /\ AllIn(t, Digit) THEN [ok |-> TRUE, val |-> Num(DigitsVal(t))]
  ELSE IF /\ p <= Len(t) /\ t[p] = "." /\ AllIn(fp, Digit) /\ Len(ip) + Len(fp) > 0
       THEN [ok |-> TRUE,
             val |-> Rat(DigitsVal(ip) * Pow10(Len(fp)) + DigitsVal(fp), Pow10(Len(fp)))]
  ELSE [ok |-> FALSE]

\* The decimal digits of a natural number.
RECURSIVE Digits(_)
Digits(n) ==
  IF n < 10 THEN <<DigitChar(n)>> ELSE Digits(n \div 10) \o <<DigitChar(n % 10)>>

\* n written with at least two digits.
Digits2(n) == IF n < 10 THEN <<"0">> \o Digits(n) ELSE Digits(n)

-----------------------------------------------------------------------------
(* adjust_fps *)

\* roughly_equal(a, b, epsilon=0.01): abs((a / b) - 1) < epsilon, for b > 0.
roughly_equal(a, b) ==
  LET q == RatDiv(a, b) IN 100 * Abs(q[1] - q[2]) < q[2]

\* x * coef, coef = 1000.0 / 1001.0
TimesCoef(x) == Rat(x * 1000, 1001)

AdjustList == <<23, 24, 25, 30, 50>>

RECURSIVE AdjustFrom(_, _)
AdjustFrom(fps, i) ==
  IF i > Len(AdjustList) THEN fps
  ELSE IF fps # Num(AdjustList[i]) /\ roughly_equal(fps, TimesCoef(AdjustList[i]))
       THEN TimesCoef(AdjustList[i])
  ELSE AdjustFrom(fps, i + 1)

\* The same loop without the test fps != x.
RECURSIVE AdjustFromNoSkip(_, _)
AdjustFromNoSkip(fps, i) ==
  IF i > Len(AdjustList) THEN fps
  ELSE IF roughly_equal(fps, TimesCoef(AdjustList[i]))
       THEN TimesCoef(AdjustList[i])
  ELSE AdjustFromNoSkip(fps, i + 1)

adjust_fps_noskip(fps) == AdjustFromNoSkip(fps, 1)

adjust_fps(fps) == AdjustFrom(fps, 1)

-----------------------------------------------------------------------------
(* parse_video_fps *)

\* The least element of a non-empty set of indices, 0 for the empty set:
\* re.search reports the leftmost match.
Leftmost(S) == IF S = {} THEN 0 ELSE CHOOSE i \in S : \A j \in S : i <= j

\* A match of "( [0-9]*.| )[0-9]* tbr" that starts at s ends with the " tbr"
\* at e: between the two there are digits and at most one other character.
TbrMatch(line, s, e) ==
  LET body == Slice(line, s + 1, e)
      other == {k \in 1..Len(body) : body[k] \notin Digit}
  IN /\ s >= 1 /\ s < e /\ line[s] = " "
     /\ At(line, e, <<" ", "tbr">>)
     /\ Cardinality(other) <= 1
     /\ \A k \in other : body[k] \notin Keyword

\* line[match.start():match.end()].split(' ')[1]
TbrField(line, s, e) ==
  LET body == Slice(line, s + 1, e)
      sp == {k \in 1..Len(body) : body[k] = " "}
  IN IF sp = {} THEN body ELSE Slice(body, 1, Leftmost(sp))

\* s.replace("k", "")
RECURSIVE DropK(_)
DropK(s) ==
  IF s = <<>> THEN <<>>
  ELSE (IF s[1] = "k" THEN <<>> ELSE <<s[1]>>) \o DropK(Tail(s))

\* get_tbr(): [ok |-> FALSE] when it raises (no match, or float() fails).
get_tbr(line) ==
  LET starts == {s \in 1..Len(line) : \E e \in (s + 1)..Len(line) : TbrMatch(line, s, e)}
      s0 == Leftmost(starts)
      e0 == CHOOSE e \in (s0 + 1)..Len(line) : TbrMatch(line, s0, e)
      s_tbr == TbrField(line, s0, e0)
      hasK == \E k \in 1..Len(s_tbr) : s_tbr[k] = "k"
      f == PyFloat(IF hasK THEN DropK(s_tbr) ELSE s_tbr)
  IN IF starts = {} THEN [ok |-> FALSE]
     ELSE IF ~f.ok THEN [ok |-> FALSE]
     ELSE [ok |-> TRUE, val |-> IF hasK THEN RatMul(f.val, Num(1000)) ELSE f.val]

\* A match of " ([0-9.]+)(k?) fps" that starts at s: r is the end of group 1.
FpsMatch(line, s) ==
  LET r == RunEnd(line, s + 1, Digit \cup {"."})
  IN /\ line[s] = " "
     /\ r > s + 1
     /\ \/ At(line, r, <<" ", "fps">>)
        \/ At(line, r, <<"k", " ", "fps">>)

\* get_fps(): [ok |-> FALSE] when it raises.
get_fps(line) ==
  LET starts == {s \in 1..Len(line) : FpsMatch(line, s)}
      s0 == Leftmost(starts)
      r == RunEnd(line, s0 + 1, Digit \cup {"."})
      f == PyFloat(Slice(line, s0 + 1, r))
  IN IF starts = {} THEN [ok |-> FALSE]
     ELSE IF ~f.ok THEN [ok |-> FALSE]
     ELSE [ok |-> TRUE,
           val |-> IF line[r] = "k" THEN RatMul(f.val, Num(1000)) ELSE f.val]

default_fps == 30

\* `x and x <= 1e3`
ValidRate(x) == Truthy(x) /\ RatLeq(x, Num(1000))

\* The choice that never looks at the fallback.
ChooseRateNoFallback(primary_fps, fallback_fps) ==
  IF ValidRate(primary_fps) THEN primary_fps ELSE Num(default_fps)

\* The final if / elif / else of parse_video_fps.
ChooseRate(primary_fps, fallback_fps) ==
  IF ValidRate(primary_fps) THEN primary_fps
  ELSE IF ValidRate(fallback_fps) THEN fallback_fps
  ELSE Num(default_fps)

parse_video_fps(line, src) ==
  LET t == get_tbr(line)
      f == get_fps(line)
      fps_by_tbr == IF t.ok THEN t.val ELSE None
      fps_by_fps == IF f.ok THEN f.val ELSE None
  IN IF src = "tbr" THEN ChooseRate(fps_by_tbr, fps_by_fps)
     ELSE ChooseRate(fps_by_fps, fps_by_tbr)

-----------------------------------------------------------------------------
(* parse_audio_infos, parse_rotation, parse_video_size, parse_duration *)

IsAudioLine(l) == Contains(l, <<" ", "Audio:", " ">>)

\* A match of " [0-9]* Hz" that starts at s.
HzMatch(line, s) ==
  /\ line[s] = " "
  /\ At(line, RunEnd(line, s + 1, Digit), <<" ", "Hz">>)

\* [audio_found, audio_fps] as parse_audio_infos returns them.
parse_audio_infos(lines) ==
  LET lines_audio == SelectSeq(lines, IsAudioLine)
      line == lines_audio[1]
      starts == {s \in 1..Len(line) : HzMatch(line, s)}
      s0 == Leftmost(starts)
      hz_string == Slice(line, s0 + 1, RunEnd(line, s0 + 1, Digit))
      v == PyInt(hz_string)
  IN IF lines_audio = <<>> THEN [audio_found |-> FALSE, audio_fps |-> None]
     ELSE IF starts = {} \/ ~v.ok THEN [audio_found |-> TRUE, audio_fps |-> None]
     ELSE [audio_found |-> TRUE, audio_fps |-> Num(v.val)]

\* re.search('\d+$', l)
EndsInDigits(l) == l # <<>> /\ l[Len(l)] \in Digit

IsRotationLine(l) == Contains(l, <<"rotate          :">>) /\ EndsInDigits(l)

\* The start of the run of digits that ends the line.
RECURSIVE TrailStart(_, _)
TrailStart(l, i) == IF i >= 1 /\ l[i] \in Digit THEN TrailStart(l, i - 1) ELSE i + 1

\* parse_rotation: [ok |-> FALSE] is the IOError of its except clause.
parse_rotation(lines) ==
  LET rotation_lines == SelectSeq(lines, IsRotationLine)
      rotation_line == rotation_lines[1]
      v == PyInt(Slice(rotation_line, TrailStart(rotation_line, Len(rotation_line)),
                       Len(rotation_line) + 1))
  IN IF rotation_lines = <<>> THEN [ok |-> TRUE, val |-> 0]
     ELSE IF v.ok THEN [ok |-> TRUE, val |-> v.val]
     ELSE [ok |-> FALSE]

\* re.search('\d+x\d+', l)
HasSizePattern(l) ==
  \E i \in 1..Len(l) :
    /\ i + 2 <= Len(l)
    /\ l[i] \in Digit /\ l[i + 1] = "x" /\ l[i + 2] \in Digit

IsVideoLine(l) == Contains(l, <<" ", "Video:", " ">>) /\ HasSizePattern(l)

\* A match of " [0-9]*x[0-9]*(,| )" that starts at s.
SizeMatch(line, s) ==
  LET a == RunEnd(line, s + 1, Digit)
      b == RunEnd(line, a + 1, Digit)
  IN /\ line[s] = " "
     /\ a <= Len(line) /\ line[a] = "x"
     /\ b <= Len(line) /\ line[b] \in {",", " "}

\* parse_video_size: [ok |-> FALSE] is the IOError of its except clause.
parse_video_size(line) ==
  LET starts == {s \in 1..Len(line) : SizeMatch(line, s)}
      s0 == Leftmost(starts)
      a == RunEnd(line, s0 + 1, Digit)
      b == RunEnd(line, a + 1, Digit)
      w == PyInt(Slice(line, s0, a))      \* s[0], with its leading blank
      h == PyInt(Slice(line, a + 1, b))   \* s[1]
  IN IF starts = {} THEN [ok |-> FALSE]
     ELSE IF ~w.ok \/ ~h.ok THEN [ok |-> FALSE]
     ELSE [ok |-> TRUE, val |-> <<w.val, h.val>>]

\* A match of "[0-9][0-9]:[0-9][0-9]:[0-9][0-9].[0-9][0-9]" at index i.
StampAt(l, i) ==
  /\ i + 10 <= Len(l)
  /\ \A k \in {0, 1, 3, 4, 6, 7, 9, 10} : l[i + k] \in Digit
  /\ l[i + 2] = ":" /\ l[i + 5] = ":"
  /\ l[i + 8] \notin Keyword

\* moviepy.tools.convert_to_seconds on "HH:MM:SS.ff".
convert_to_seconds(t) ==
  IF t[9] \in {".", ","}
  THEN [ok |-> TRUE,
        val |-> Rat(((DigitsVal(SubSeq(t, 1, 2)) * 60 + DigitsVal(SubSeq(t, 4, 5))) * 60
                     + DigitsVal(SubSeq(t, 7, 8))) * 100 + DigitsVal(SubSeq(t, 10, 11)),
                    100)]
  ELSE [ok |-> FALSE]

IsDurationLine(l) == Contains(l, <<"Duration:", " ">>)
IsFrameLine(l) == Contains(l, <<"frame=">>)

\* parse_duration: [ok |-> FALSE, exc |-> ...] when it raises.
parse_duration(is_GIF, lines) ==
  LET hits == IF is_GIF THEN SelectSeq(lines, IsFrameLine)
              ELSE SelectSeq(lines, IsDurationLine)
      line == IF is_GIF THEN hits[Len(hits)] ELSE hits[1]
      matches == {i \in 1..Len(line) : StampAt(line, i)}
      m0 == Leftmost(matches)
      secs == convert_to_seconds(SubSeq(line, m0, m0 + 10))
  IN IF hits = <<>> THEN [ok |-> FALSE, exc |-> "IndexError"]
     ELSE IF matches = {} THEN [ok |-> TRUE, val |-> Num(0)]
     ELSE IF secs.ok THEN [ok |-> TRUE, val |-> secs.val]
     ELSE [ok |-> FALSE, exc |-> "ValueError"]

\* get_alt_fps_n_frames on ffprobe's output: re.match(r"(\d+)/(\d+)\|(\d+)", out).
get_alt_fps_n_frames(out) ==
  LET a == RunEnd(out, 1, Digit)
      b == RunEnd(out, a + 1, Digit)
      c == RunEnd(out, b + 1, Digit)
      matched == /\ a > 1 /\ a <= Len(out) /\ out[a] = "/"
                 /\ b > a + 1 /\ b <= Len(out) /\ out[b] = "|"
                 /\ c > b + 1
      num == DigitsVal(Slice(out, 1, a))
      den == DigitsVal(Slice(out, a + 1, b))
  IN IF ~matched THEN [ok |-> FALSE, exc |-> "AttributeError"]
     ELSE IF den = 0 THEN [ok |-> FALSE, exc |-> "ZeroDivisionError"]
     ELSE [ok |-> TRUE, fps |-> Rat(num, den),
           n_frames |-> DigitsVal(Slice(out, b + 1, c))]

\* get_raw_metadata: the test of the last line of the output.
get_raw_metadata(infos) ==
  IF infos = <<>> THEN [ok |-> FALSE, exc |-> "IndexError"]
  ELSE IF Contains(infos[Len(infos)], <<"No such file or directory">>)
       THEN [ok |-> FALSE, exc |-> "IOError"]
  ELSE [ok |-> TRUE]

-----------------------------------------------------------------------------
(* The media file and the text ffmpeg prints for it *)

MaxDurSteps == 2     \* container durations of 0, 25, .. MaxDurSteps * 25 seconds
MaxFrameLines == 2   \* progress lines in the output for a GIF

\* A frame rate as ffmpeg prints it: whole, with two decimals, or whole with a
\* k suffix; "junk" and "dotted" are tokens that are no number, "absent" no
\* token at all.
RateTok(whole, hund, thousands) ==
  [kind |-> "rate", whole |-> whole, hund |-> hund, k |-> thousands]
NoTok == [kind |-> "absent", whole |-> 0, hund |-> 0, k |-> FALSE]
JunkTok == [kind |-> "junk", whole |-> 0, hund |-> 0, k |-> FALSE]
DottedTok == [kind |-> "dotted", whole |-> 0, hund |-> 0, k |-> FALSE]

\* The rate a token states, None when it states none.
TokRate(t) ==
  IF t.kind # "rate" THEN None
  ELSE IF t.k THEN Num(t.whole * 1000)
  ELSE Rat(t.whole * 100 + t.hund, 100)

RenderRate(t, kw) ==
  IF t.kind = "absent" THEN <<>>
  ELSE IF t.kind = "junk" THEN <<" ", "x", " ", kw, ",">>
  ELSE IF t.kind = "dotted" THEN <<" ", "1", ".", "2", ".", "3", " ", kw, ",">>
  ELSE <<" ">> \o Digits(t.whole)
       \o (IF t.hund # 0 THEN <<".">> \o Digits2(t.hund) ELSE <<>>)
       \o (IF t.k THEN <<"k">> ELSE <<>>)
       \o <<" ", kw, ",">>

\* HH:MM:SS.ff of a time in hundredths of a second.
RenderStamp(cs) ==
  Digits2(cs \div 360000) \o <<":">> \o Digits2((cs \div 6000) % 60) \o <<":">>
  \o Digits2((cs \div 100) % 60) \o <<".">> \o Digits2(cs % 100)

RenderDuration(d) ==
  IF d.kind = "absent" THEN <<>>
  ELSE IF d.kind = "na" THEN << <<" ", "Duration:", " ", "N", "/", "A", ",">> >>
  ELSE << <<" ", "Duration:", " ">> \o RenderStamp(d.cs) \o <<",">> >>

RenderFrame(f) ==
  IF f.kind = "stamp" THEN <<"frame=", " ", "1", " ">> \o RenderStamp(f.cs)
  ELSE <<"frame=", " ", "1">>

RenderFrames(fs) == [i \in 1..Len(fs) |-> RenderFrame(fs[i])]

\* What stands between the codec name and the size on the video line.
RenderPre(pre) ==
  IF pre = "hex" THEN <<" ", "(", "0", "x", "3", "1", ")", ",">>
  ELSE IF pre = "x" THEN <<" ", "x", ",">>
  ELSE <<>>

RenderTerm(term) ==
  IF term = "," THEN <<",">>
  ELSE IF term = " " THEN <<" ", "[", "]", ",">>
  ELSE <<>>

RenderVideo(v) ==
  IF ~v.present THEN <<>>
  ELSE << <<" ", "Video:", " ", "h", ",">> \o RenderPre(v.pre)
          \o <<" ">> \o Digits(v.size[1]) \o <<"x">> \o Digits(v.size[2])
          \o RenderTerm(v.term)
          \o RenderRate(v.fps, "fps") \o RenderRate(v.tbr, "tbr") >>

RenderRotation(r) ==
  IF r.kind = "absent" THEN <<>>
  ELSE IF r.kind = "int" THEN << <<" ", "rotate          :", " ">> \o Digits(r.val) >>
  ELSE << <<" ", "rotate          :", " ", "x">> >>

RenderAudio(a) ==
  IF a.kind = "absent" THEN <<>>
  ELSE IF a.kind = "hz"
       THEN << <<" ", "Audio:", " ", "a", ",", " ">> \o Digits(a.val) \o <<" ", "Hz", ",">> >>
  ELSE IF a.kind = "emptyhz" THEN << <<" ", "Audio:", " ", "a", ",", " ", " ", "Hz">> >>
  ELSE << <<" ", "Audio:", " ", "a", ",">> >>

Banner == <<"f", "f">>

\* ffmpeg's diagnostic output for a media file.
Render(m) ==
  IF m.notfound THEN <<Banner, <<"a", ":", " ", "No such file or directory">> >>
  ELSE <<Banner>> \o RenderDuration(m.dur) \o RenderRotation(m.rot)
       \o RenderVideo(m.video) \o RenderAudio(m.audio) \o RenderFrames(m.frames)

Durations ==
  {[kind |-> "absent", cs |-> 0], [kind |-> "na", cs |-> 0]}
  \cup {[kind |-> "stamp", cs |-> 2500 * k] : k \in 0..MaxDurSteps}

FrameLines ==
  {<<>>, << [kind |-> "nostamp", cs |-> 0] >>}
  \cup {[i \in 1..n |-> [kind |-> "stamp", cs |-> 100 * i]] : n \in 1..MaxFrameLines}

NoVideo ==
  [present |-> FALSE, pre |-> "none", size |-> <<0, 0>>, term |-> ",",
   fps |-> NoTok, tbr |-> NoTok]

\* The pairs <<fps token, tbr token>> of the video lines of whole runs.
RatePairs ==
  {<<RateTok(25, 0, FALSE), RateTok(23, 98, FALSE)>>,
   <<NoTok, RateTok(2, 0, TRUE)>>,
   <<RateTok(0, 0, FALSE), RateTok(30, 0, FALSE)>>}

Videos ==
  {NoVideo}
  \cup {[present |-> TRUE, pre |-> p, size |-> <<64, 36>>, term |-> t,
         fps |-> r[1], tbr |-> r[2]] :
          p \in {"none", "hex", "x"}, t \in {",", " "}, r \in RatePairs}
  \cup {[present |-> TRUE, pre |-> p, size |-> <<64, 36>>, term |-> "eol",
         fps |-> NoTok, tbr |-> NoTok] : p \in {"none", "hex", "x"}}

Rotations ==
  {[kind |-> "absent", val |-> 0], [kind |-> "int", val |-> 90],
   [kind |-> "bad", val |-> 0]}

Audios ==
  {[kind |-> "absent", val |-> 0], [kind |-> "hz", val |-> 44100],
   [kind |-> "nohz", val |-> 0], [kind |-> "emptyhz", val |-> 0]}

\* What ffprobe -count_frames finds: a rate num/den and a frame count, or no
\* video stream at all (it then prints nothing).
Probes ==
  {[num |-> 15, den |-> 1, count |-> 30, empty |-> FALSE],
   [num |-> 30000, den |-> 1001, count |-> 60, empty |-> FALSE],
   [num |-> 0, den |-> 0, count |-> 0, empty |-> FALSE],
   [num |-> 0, den |-> 1, count |-> 0, empty |-> TRUE]}

RenderProbe(p) ==
  IF p.empty THEN <<>>
  ELSE Digits(p.num) \o <<"/">> \o Digits(p.den) \o <<"|">> \o Digits(p.count)

Medias ==
  {[notfound |-> FALSE, dur |-> d, frames |-> <<>>, video |-> v, rot |-> r, audio |-> a] :
     d \in Durations, v \in Videos, r \in Rotations, a \in Audios}

GifMedias ==
  {[notfound |-> FALSE, dur |-> [kind |-> "stamp", cs |-> 2500], frames |-> f,
    video |-> v, rot |-> r, audio |-> a] :
     f \in FrameLines, v \in Videos, r \in Rotations, a \in Audios}

MissingMedia ==
  [notfound |-> TRUE, dur |-> [kind |-> "absent", cs |-> 0], frames |-> <<>>,
   video |-> NoVideo, rot |-> [kind |-> "absent", val |-> 0],
   audio |-> [kind |-> "absent", val |-> 0]]

-----------------------------------------------------------------------------
(* ffmpeg_parse_infos *)

\* VideoMetaData()
VideoMetaData ==
  [duration |-> None, size |-> None, video_found |-> FALSE, video_fps |-> None,
   video_n_frames |-> None, video_duration |-> None, video_rotation |-> Num(0),
   video_size |-> None, audio_found |-> FALSE, audio_fps |-> <<"unknown">>]

NoException == [exc |-> "none", by |-> "none"]

ClipIdle == /\ clip = None /\ arg = None /\ hist = <<>> /\ evals = <<>>
ClipSame == UNCHANGED <<clip, arg, hist, evals>>
InputSame == UNCHANGED <<filename, fps_source, media, fps_out>>
OutputSame == UNCHANGED <<stderr, probe_out>>

InitInfos ==
  /\ pc = "start"
  /\ filename \in {[gif |-> FALSE], [gif |-> TRUE]}
  /\ fps_source \in {"tbr", "fps"}
  /\ media \in (IF filename.gif THEN GifMedias ELSE Medias \cup {MissingMedia})
  /\ stderr = <<>>
  /\ probe_out = None
  /\ lines_video = <<>>
  /\ meta = VideoMetaData
  /\ err = NoException
  /\ called = {}
  /\ fps_out = None
  /\ ClipIdle

\* An exception leaves ffmpeg_parse_infos: no record is returned.
Raise(exc, by) ==
  /\ pc' = "raised"
  /\ err' = [exc |-> exc, by |-> by]
  /\ UNCHANGED <<lines_video, meta>>

\* raw_metadata = get_raw_metadata(filename); lines = raw_metadata.splitlines()
RawMetadata ==
  /\ pc = "start"
  /\ called' = called \cup {"ffmpeg"}
  /\ stderr' = Render(media)
  /\ UNCHANGED probe_out
  /\ LET r == get_raw_metadata(stderr') IN
       IF r.ok THEN /\ pc' = "parse_duration"
                    /\ UNCHANGED <<lines_video, meta, err>>
       ELSE Raise(r.exc, "get_raw_metadata")
  /\ InputSame /\ ClipSame

\* meta.duration = parse_duration(is_GIF=filename.endswith('.gif'), lines=lines)
ParseDuration ==
  /\ pc = "parse_duration"
  /\ LET r == parse_duration(filename.gif, stderr) IN
       IF r.ok THEN /\ meta' = [meta EXCEPT !.duration = r.val]
                    /\ pc' = "find_video"
                    /\ UNCHANGED <<lines_video, err>>
       ELSE Raise(r.exc, "parse_duration")
  /\ UNCHANGED called /\ InputSame /\ OutputSame /\ ClipSame

\* lines_video = [...]; meta.video_found = bool(lines_video); the two ifs.
FindVideo ==
  /\ pc = "find_video"
  /\ lines_video' = SelectSeq(stderr, IsVideoLine)
  /\ meta' = [meta EXCEPT !.video_found = (lines_video' # <<>>)]
  /\ pc' = IF lines_video' = <<>> THEN "parse_audio"
           ELSE IF ~Truthy(meta.duration) THEN "alt_fps"
           ELSE "video_fps"
  /\ UNCHANGED <<err, called>> /\ InputSame /\ OutputSame /\ ClipSame

\* The branch `if not meta.duration:`.
AltFps ==
  /\ pc = "alt_fps"
  /\ called' = called \cup {"get_alt_fps_n_frames"}
  /\ \E p \in Probes : probe_out' = [truth |-> p, text |-> RenderProbe(p)]
  /\ UNCHANGED stderr
  /\ LET r == get_alt_fps_n_frames(probe_out'.text) IN
       IF ~r.ok THEN Raise(r.exc, "get_alt_fps_n_frames")
       ELSE IF r.fps[1] = 0 THEN Raise("ZeroDivisionError", "ffmpeg_parse_infos")
       ELSE /\ meta' = [meta EXCEPT
                          !.video_duration = Rat(r.n_frames * r.fps[2], r.fps[1]),
                          !.video_fps = r.fps,
                          !.video_n_frames = Num(r.n_frames),
                          !.duration = Rat(r.n_frames * r.fps[2], r.fps[1])]
            /\ pc' = "video_size"
            /\ UNCHANGED <<lines_video, err>>
  /\ InputSame /\ ClipSame

\* int(meta.duration * meta.video_fps) without the + 1.
FrameCountNoPlusOne(duration, fps) == Num(RatTrunc(RatMul(duration, fps)))

\* int(meta.duration * meta.video_fps) + 1
FrameCount(duration, fps) == Num(RatTrunc(RatMul(duration, fps)) + 1)

\* The else branch: the rate of the video line and the frame count from it.
VideoFps ==
  /\ pc = "video_fps"
  /\ LET fps == parse_video_fps(lines_video[1], fps_source) IN
       meta' = [meta EXCEPT
                  !.video_fps = fps,
                  !.video_n_frames = FrameCount(meta.duration, fps),
                  !.video_duration = meta.duration]
  /\ pc' = "video_size"
  /\ UNCHANGED <<lines_video, err, called>> /\ InputSame /\ OutputSame /\ ClipSame

\* meta.video_size = parse_video_size(lines_video[0])
VideoSize ==
  /\ pc = "video_size"
  /\ LET r == parse_video_size(lines_video[1]) IN
       IF r.ok THEN /\ meta' = [meta EXCEPT !.video_size = r.val]
                    /\ pc' = "adjust_fps"
                    /\ UNCHANGED <<lines_video, err>>
       ELSE Raise("IOError", "parse_video_size")
  /\ UNCHANGED called /\ InputSame /\ OutputSame /\ ClipSame

\* meta.video_fps = adjust_fps(meta.video_fps)
AdjustFps ==
  /\ pc = "adjust_fps"
  /\ meta' = [meta EXCEPT !.video_fps = adjust_fps(meta.video_fps)]
  /\ pc' = "parse_rotation"
  /\ UNCHANGED <<lines_video, err, called>> /\ InputSame /\ OutputSame /\ ClipSame

\* meta.video_rotation = parse_rotation(lines)
ParseRotation ==
  /\ pc = "parse_rotation"
  /\ LET r == parse_rotation(stderr) IN
       IF r.ok THEN /\ meta' = [meta EXCEPT !.video_rotation = Num(r.val)]
                    /\ pc' = "parse_audio"
                    /\ UNCHANGED <<lines_video, err>>
       ELSE Raise("IOError", "parse_rotation")
  /\ UNCHANGED called /\ InputSame /\ OutputSame /\ ClipSame

\* meta.audio_found, meta.audio_fps = parse_audio_infos(lines); return meta
ParseAudio ==
  /\ pc = "parse_audio"
  /\ LET r == parse_audio_infos(stderr) IN
       meta' = [meta EXCEPT !.audio_found = r.audio_found, !.audio_fps = r.audio_fps]
  /\ pc' = "returned"
  /\ UNCHANGED <<lines_video, err, called>> /\ InputSame /\ OutputSame /\ ClipSame

NextInfos ==
  \/ RawMetadata
  \/ ParseDuration
  \/ FindVideo
  \/ AltFps
  \/ VideoFps
  \/ VideoSize
  \/ AdjustFps
  \/ ParseRotation
  \/ ParseAudio

Spec == InitInfos /\ [][NextInfos]_vars

-----------------------------------------------------------------------------
(* Direct calls of parse_video_fps and of adjust_fps *)

MaxKilo == 2    \* k-suffixed rates of 1k .. MaxKilo k, and of 90k
MaxRate == 51   \* adjust_fps is called on 0.00, 0.01, .. MaxRate.00

Tokens ==
  {NoTok, JunkTok, DottedTok, RateTok(23, 98, FALSE), RateTok(0, 50, FALSE)}
  \cup {RateTok(w, 0, FALSE) : w \in {0, 1, 25, 1000, 1001}}
  \cup {RateTok(w, 0, TRUE) : w \in (1..MaxKilo) \cup {90}}

VideoWith(f, t) ==
  [present |-> TRUE, pre |-> "none", size |-> <<64, 36>>, term |-> ",",
   fps |-> f, tbr |-> t]

InfosIdle ==
  /\ filename = [gif |-> FALSE]
  /\ probe_out = None
  /\ lines_video = <<>>
  /\ meta = VideoMetaData
  /\ err = NoException
  /\ called = {}

InfosSame ==
  UNCHANGED <<filename, fps_source, media, stderr, probe_out, lines_video,
              meta, err, called>>

InitFps ==
  /\ pc = "fps_call"
  /\ fps_source \in {"tbr", "fps"}
  /\ \E f \in Tokens, t \in Tokens :
       media = [MissingMedia EXCEPT !.notfound = FALSE, !.video = VideoWith(f, t)]
  /\ stderr = RenderVideo(media.video)
  /\ fps_out = [arg |-> None, res |-> None]
  /\ InfosIdle /\ ClipIdle

\* parse_video_fps(line, fps_source) on the video line
CallParseVideoFps ==
  /\ pc = "fps_call"
  /\ fps_out' = [fps_out EXCEPT !.res = parse_video_fps(stderr[1], fps_source)]
  /\ pc' = "fps_done"
  /\ InfosSame /\ ClipSame

NextFps == CallParseVideoFps

SpecFps == InitFps /\ [][NextFps]_vars

AdjustInputs ==
  {Rat(n, 100) : n \in 0..(MaxRate * 100)}
  \cup {TimesCoef(AdjustList[i]) : i \in 1..Len(AdjustList)}

InitAdjust ==
  /\ pc = "adjust_call"
  /\ fps_source = "tbr"
  /\ media = MissingMedia
  /\ stderr = <<>>
  /\ \E r \in AdjustInputs : fps_out = [arg |-> r, res |-> None]
  /\ InfosIdle /\ ClipIdle

\* adjust_fps(fps)
CallAdjustFps ==
  /\ pc = "adjust_call"
  /\ fps_out' = [fps_out EXCEPT !.res = adjust_fps(fps_out.arg)]
  /\ pc' = "adjust_done"
  /\ InfosSame /\ ClipSame

NextAdjust == CallAdjustFps

SpecAdjust == InitAdjust /\ [][NextAdjust]_vars

-----------------------------------------------------------------------------
(* Claims about the frame rate *)

\* The rate the claim calls primary, and the one it calls fallback.
PrimaryRate == TokRate(IF fps_source = "tbr" THEN media.video.tbr ELSE media.video.fps)
FallbackRate == TokRate(IF fps_source = "tbr" THEN media.video.fps ELSE media.video.tbr)

AtMost1000(r) == r # None /\ r[1] <= 1000 * r[2]
Usable(r) == AtMost1000(r) /\ r[1] # 0

\* The rate the policy as C1 states it gives: a present rate <= 1000 is used.
ClaimedRate(prim, fall) ==
  IF AtMost1000(prim) THEN prim ELSE IF AtMost1000(fall) THEN fall ELSE <<30, 1>>

\* The policy with a rate of 0 counted like an absent one.
ExpectedRate(prim, fall) ==
  IF Usable(prim) THEN prim ELSE IF Usable(fall) THEN fall ELSE <<30, 1>>

\* C1 as stated: parse_video_fps returns the primary rate when it is present
\* and <= 1000, otherwise the fallback rate when it is present and <= 1000,
\* otherwise 30.
C1_AsStated ==
  pc = "fps_done" => fps_out.res = ClaimedRate(PrimaryRate, FallbackRate)

\* C1 amended: parse_video_fps returns the primary rate when it is present,
\* not zero and <= 1000, otherwise the fallback rate when it is present, not
\* zero and <= 1000, otherwise 30; it never raises.
C1_RatePolicy ==
  pc = "fps_done" => fps_out.res = ExpectedRate(PrimaryRate, FallbackRate)

\* The primary token states a rate above 1000 and the fallback rate is used.
C1_Witness ==
  /\ pc = "fps_done"
  /\ fps_source = "tbr"
  /\ media.video.tbr = RateTok(90, 0, TRUE)
  /\ media.video.fps = RateTok(25, 0, FALSE)
  /\ fps_out.res = <<25, 1>>

SnapSet == {23, 24, 25, 30, 50}

\* |r / (x * 1000/1001) - 1| < 0.01, in integers.
InWindow(r, x) ==
  LET g == GCD(1001 * r[1], 1000 * x * r[2])
      n == (1001 * r[1]) \div g
      d == (1000 * x * r[2]) \div g
  IN 100 * (IF n < d THEN d - n ELSE n - d) < d

\* C2: adjust_fps returns x*1000/1001 for a rate within 1% of it that is not
\* one of 23, 24, 25, 30, 50, returns these five and every rate outside the
\* five windows unchanged, and no rate lies in two windows.
C2_Snap ==
  pc = "adjust_done" =>
    LET r == fps_out.arg
        W == {x \in SnapSet : InWindow(r, x)}
        whole == \E x \in SnapSet : r = <<x, 1>>
    IN /\ Cardinality(W) <= 1
       /\ whole => fps_out.res = r
       /\ \A x \in W : ~whole => fps_out.res = <<1000 * x, 1001>>
       /\ W = {} => fps_out.res = r

\* 23.98 is snapped to 24000/1001.
C2_Witness ==
  /\ pc = "adjust_done"
  /\ fps_out.arg = <<1199, 50>>
  /\ fps_out.res = <<24000, 1001>>

-----------------------------------------------------------------------------
(* Claims about ffmpeg_parse_infos *)

\* No line of the output holds the keyword parse_duration looks for.
KeywordMissing ==
  IF filename.gif THEN media.frames = <<>> ELSE media.dur.kind = "absent"

\* C3: with no line holding the duration keyword, parse_duration returns 0
\* and ffmpeg_parse_infos goes on instead of raising.
C3_MissingKeywordIsZero ==
  (KeywordMissing /\ (pc = "find_video" \/ err.by = "parse_duration")) =>
     /\ err.exc = "none"
     /\ meta.duration = <<0, 1>>

\* C4: in a returned record audio_fps is the integer of the "<number> Hz"
\* token of the audio line, and the 'unknown' sentinel when there is no audio
\* line or no such token on it.
C4_AudioFpsUnknown ==
  pc = "returned" =>
     IF media.audio.kind = "hz" THEN meta.audio_fps = <<media.audio.val, 1>>
     ELSE meta.audio_fps = <<"unknown">>

\* parse_rotation has run and returned.
RotationReturned == meta.video_found /\ pc \in {"parse_audio", "returned"}

\* C5: with a video stream found and a rotation marker line that does not end
\* in digits, parse_rotation raises instead of returning; it returns 0 only
\* when no line holds the marker.
C5_BadRotationRaises ==
  RotationReturned =>
     /\ media.rot.kind # "bad"
     /\ meta.video_rotation = <<0, 1>> => media.rot.kind = "absent"

\* C6: for a video line whose size token ends in a comma or a blank,
\* parse_video_size does not raise and video_size is the width and height of
\* the token, whatever stands before the token on the line.
C6_VideoSizeOfToken ==
  (media.video.present /\ media.video.term \in {",", " "}) =>
     /\ err.by # "parse_video_size"
     /\ meta.video_size # None => meta.video_size = media.video.size

\* The duration parse_duration gives when it returns, from what the file holds.
StatedDuration ==
  LET last == media.frames[Len(media.frames)] IN
  IF filename.gif
  THEN (IF last.kind = "stamp" THEN Rat(last.cs, 100) ELSE <<0, 1>>)
  ELSE (IF media.dur.kind = "stamp" THEN Rat(media.dur.cs, 100) ELSE <<0, 1>>)

\* The if / else on meta.duration has been passed (or was skipped: no video).
BranchPassed ==
  /\ pc \in {"video_size", "adjust_fps", "parse_rotation", "parse_audio",
             "returned", "raised"}
  /\ err.by \notin {"get_raw_metadata", "parse_duration"}

FallbackCalled == "get_alt_fps_n_frames" \in called

-----------------------------------------------------------------------------
(* ImageClip and ColorClip *)

MaxRows == 1         \* buffers of 1 .. MaxRows rows (and of 1 or 2 columns)
MaxTransforms == 2   \* image_transform calls made on one clip

\* A numpy array: shape <<rows, cols>> or <<rows, cols, channels>>, and px[r][c]
\* the element (2-D) or the sequence of the channels (3-D) at row r, column c.
Array(shape, px) == [shape |-> shape, px |-> px]

Rows(a) == a.shape[1]
Cols(a) == a.shape[2]

\* 1.0 * img[:, :, ch] / 255 (ch counted from 0)
ChannelOver255(img, ch) ==
  Array(<<Rows(img), Cols(img)>>,
        [r \in 1..Rows(img) |->
           [c \in 1..Cols(img) |-> RatDiv(img.px[r][c][ch + 1], Num(255))]])

\* img[:, :, :3]
FirstThree(img) ==
  Array(<<Rows(img), Cols(img), 3>>,
        [r \in 1..Rows(img) |-> [c \in 1..Cols(img) |-> SubSeq(img.px[r][c], 1, 3)]])

\* img.shape[:2][::-1]
SizeOf(img) == <<Cols(img), Rows(img)>>

\* The end of ImageClip.__init__: make_frame is `lambda t: img`, held here as
\* the array the lambda returns.
Still(img, is_mask, mask) ==
  [img |-> img, size |-> SizeOf(img), make_frame |-> img, is_mask |-> is_mask,
   mask |-> mask]

\* __init__ with the test of is_mask before the test of fromalpha.
ImageClipMaskFirst(img, is_mask, transparent, fromalpha) ==
  IF Len(img.shape) = 3
  THEN IF img.shape[3] = 4
       THEN IF is_mask THEN Still(ChannelOver255(img, 0), is_mask, None)
            ELSE IF fromalpha THEN Still(ChannelOver255(img, 3), is_mask, None)
            ELSE IF transparent
                 THEN Still(FirstThree(img), is_mask,
                            Still(ChannelOver255(img, 3), TRUE, None))
            ELSE Still(img, is_mask, None)
       ELSE IF is_mask THEN Still(ChannelOver255(img, 0), is_mask, None)
       ELSE Still(img, is_mask, None)
  ELSE Still(img, is_mask, None)

\* ImageClip.__init__(img, is_mask, transparent, fromalpha) on an array.
ImageClip(img, is_mask, transparent, fromalpha) ==
  IF Len(img.shape) = 3
  THEN IF img.shape[3] = 4
       THEN IF fromalpha THEN Still(ChannelOver255(img, 3), is_mask, None)
            ELSE IF is_mask THEN Still(ChannelOver255(img, 0), is_mask, None)
            ELSE IF transparent
                 THEN Still(FirstThree(img), is_mask,
                            \* ImageClip(1.0 * img[:, :, 3] / 255, is_mask=True)
                            Still(ChannelOver255(img, 3), TRUE, None))
            ELSE Still(img, is_mask, None)
       ELSE IF is_mask THEN Still(ChannelOver255(img, 0), is_mask, None)
       ELSE Still(img, is_mask, None)
  ELSE Still(img, is_mask, None)

\* The frame function of a clip at time t.
make_frame(c, t) == c.make_frame

\* The image functions handed to image_transform.
Transforms == {"transpose", "mirror", "crop"}

Apply(f, a) ==
  IF f = "transpose"
  THEN Array(<<Cols(a), Rows(a)>> \o SubSeq(a.shape, 3, Len(a.shape)),
             [r \in 1..Cols(a) |-> [c \in 1..Rows(a) |-> a.px[c][r]]])
  ELSE IF f = "mirror"
  THEN Array(a.shape,
             [r \in 1..Rows(a) |-> [c \in 1..Cols(a) |-> a.px[r][Cols(a) + 1 - c]]])
  ELSE Array(<<Rows(a), 1>> \o SubSeq(a.shape, 3, Len(a.shape)),
             [r \in 1..Rows(a) |-> [c \in 1..1 |-> a.px[r][c]]])

\* The body of image_transform on the copy @outplace makes, without apply_to.
TransformOwn(c, image_func) ==
  LET arr == Apply(image_func, make_frame(c, 0))
  IN [c EXCEPT !.size = SizeOf(arr), !.make_frame = arr, !.img = arr]

\* The body that forgets to replace make_frame.
image_transform_stale(c, image_func, apply_to) ==
  LET arr == Apply(image_func, make_frame(c, 0))
  IN [c EXCEPT !.size = SizeOf(arr), !.img = arr]

\* image_transform(image_func, apply_to): the new clip.
image_transform(c, image_func, apply_to) ==
  LET own == TransformOwn(c, image_func)
  IN IF apply_to = <<"mask">> /\ c.mask # None
     THEN [own EXCEPT !.mask = TransformOwn(c.mask, image_func)]
     ELSE own

\* The evaluations of image_func that image_transform makes, in order.
Evaluations(c, image_func, apply_to) ==
  << [f |-> image_func, on |-> make_frame(c, 0)] >>
  \o (IF apply_to = <<"mask">> /\ c.mask # None
      THEN << [f |-> image_func, on |-> make_frame(c.mask, 0)] >>
      ELSE <<>>)

\* np.tile(color, w * h).reshape(shape)
Tiled(shape, color) ==
  Array(shape, [r \in 1..shape[1] |-> [c \in 1..shape[2] |-> color]])

\* ColorClip.__init__(size, color, is_mask): [ok |-> FALSE] is its Exception.
ColorClip(size, color, is_mask) ==
  LET w == size[1]
      h == size[2]
  IN IF is_mask
     THEN IF color.kind = "none"
          THEN [ok |-> TRUE, clip |-> ImageClip(Tiled(<<h, w>>, Num(0)), TRUE, TRUE, FALSE)]
          ELSE IF color.kind # "scalar" THEN [ok |-> FALSE]
          ELSE [ok |-> TRUE, clip |-> ImageClip(Tiled(<<h, w>>, color.val), TRUE, TRUE, FALSE)]
     ELSE IF color.kind = "none"
          THEN [ok |-> TRUE,
                clip |-> ImageClip(Tiled(<<h, w, 3>>, <<Num(0), Num(0), Num(0)>>),
                                   FALSE, TRUE, FALSE)]
          ELSE IF color.kind # "tuple" THEN [ok |-> FALSE]
          ELSE [ok |-> TRUE,
                clip |-> ImageClip(Tiled(<<h, w, Len(color.val)>>, color.val),
                                   FALSE, TRUE, FALSE)]

\* The pixels and the mask values the buffers are made of.
Pixels4 == {<<Num(10), Num(20), Num(30), Num(255)>>, <<Num(200), Num(100), Num(50), Num(0)>>}
Pixels3 == {<<Num(10), Num(20), Num(30)>>, <<Num(200), Num(100), Num(50)>>}
Values == {Num(0), Rat(1, 2)}

ArraysOf(elems, tail) ==
  UNION {{Array(<<rows, cols>> \o tail, px) :
            px \in [1..rows -> [1..cols -> elems]]} :
         rows \in 1..MaxRows, cols \in 1..2}

Arrays == ArraysOf(Pixels4, <<4>>) \cup ArraysOf(Pixels3, <<3>>) \cup ArraysOf(Values, <<>>)

Colors ==
  {[kind |-> "none", val |-> None], [kind |-> "scalar", val |-> Rat(1, 2)],
   [kind |-> "tuple", val |-> <<Num(10), Num(20), Num(30)>>],
   [kind |-> "tuple", val |-> <<Num(10), Num(20), Num(30), Num(255)>>]}

InitClip ==
  /\ pc = "new"
  /\ fps_source = "tbr"
  /\ media = MissingMedia
  /\ stderr = <<>>
  /\ fps_out = None
  /\ InfosIdle /\ ClipIdle

ClipFrame == UNCHANGED <<filename, fps_source, media, stderr, probe_out,
                         lines_video, meta, called, fps_out>>

\* clip = ImageClip(img, is_mask=.., transparent=.., fromalpha=..)
NewImageClip ==
  /\ pc = "new"
  /\ \E img \in Arrays, is_mask \in BOOLEAN, transparent \in BOOLEAN, fromalpha \in BOOLEAN :
       /\ arg' = [ctor |-> "ImageClip", img |-> img, is_mask |-> is_mask,
                  transparent |-> transparent, fromalpha |-> fromalpha]
       /\ clip' = ImageClip(img, is_mask, transparent, fromalpha)
  /\ pc' = "clip"
  /\ UNCHANGED <<hist, evals, err>> /\ ClipFrame

\* clip = ColorClip(size, color=.., is_mask=..)
NewColorClip ==
  /\ pc = "new"
  /\ \E w \in 1..2, h \in 1..MaxRows, color \in Colors, is_mask \in BOOLEAN :
       LET r == ColorClip(<<w, h>>, color, is_mask) IN
       /\ arg' = [ctor |-> "ColorClip", size |-> <<w, h>>, color |-> color,
                  is_mask |-> is_mask]
       /\ IF r.ok THEN /\ clip' = r.clip
                       /\ pc' = "clip"
                       /\ UNCHANGED err
          ELSE /\ pc' = "raised"
               /\ err' = [exc |-> "Exception", by |-> "ColorClip"]
               /\ UNCHANGED clip
  /\ UNCHANGED <<hist, evals>> /\ ClipFrame

\* clip = clip.image_transform(image_func, apply_to)
ImageTransform ==
  /\ pc = "clip"
  /\ Len(hist) < MaxTransforms
  /\ \E f \in Transforms, apply_to \in {<<>>, <<"mask">>} :
       /\ clip' = image_transform(clip, f, apply_to)
       /\ evals' = evals \o [i \in 1..Len(Evaluations(clip, f, apply_to)) |->
                               [call |-> Len(hist) + 1,
                                f |-> Evaluations(clip, f, apply_to)[i].f,
                                on |-> Evaluations(clip, f, apply_to)[i].on]]
       /\ hist' = Append(hist, [f |-> f, apply_to |-> apply_to])
  /\ UNCHANGED <<pc, arg, err>> /\ ClipFrame

NextClip ==
  \/ NewImageClip
  \/ NewColorClip
  \/ ImageTransform

SpecClip == InitClip /\ [][NextClip]_vars

-----------------------------------------------------------------------------
(* Claims about the clips *)

\* An ImageClip has just been constructed from a 4-channel array.
Built4 ==
  /\ pc = "clip" /\ hist = <<>>
  /\ arg.ctor = "ImageClip"
  /\ Len(arg.img.shape) = 3 /\ arg.img.shape[3] = 4

\* Array a is 2-D and holds channel ch (from 0) of the input, divided by 255.
IsChannelOver255(a, ch) ==
  /\ a.shape = <<arg.img.shape[1], arg.img.shape[2]>>
  /\ \A r \in 1..arg.img.shape[1], c \in 1..arg.img.shape[2] :
       a.px[r][c][1] * 255 = arg.img.px[r][c][ch + 1][1] * a.px[r][c][2]

\* C7: from a 4-channel array the defaults give a clip holding channels 0..2
\* and a mask clip, flagged is_mask, holding channel 3 / 255 at every pixel,
\* both of size (cols, rows); with fromalpha the clip holds channel 3 / 255 and
\* has no mask, with is_mask alone channel 0 / 255 and no mask.
C7_AlphaSplit ==
  Built4 =>
    LET a == arg.img
        size == <<a.shape[2], a.shape[1]>>
    IN /\ (~arg.is_mask /\ ~arg.fromalpha /\ arg.transparent) =>
            /\ clip.img.shape = <<a.shape[1], a.shape[2], 3>>
            /\ \A r \in 1..a.shape[1], c \in 1..a.shape[2] :
                 clip.img.px[r][c] = <<a.px[r][c][1], a.px[r][c][2], a.px[r][c][3]>>
            /\ clip.mask # None
            /\ clip.mask.is_mask
            /\ IsChannelOver255(clip.mask.img, 3)
            /\ clip.size = size /\ clip.mask.size = size
       /\ arg.fromalpha =>
            /\ clip.mask = None
            /\ IsChannelOver255(clip.img, 3)
       /\ (arg.is_mask /\ ~arg.fromalpha) =>
            /\ clip.mask = None
            /\ IsChannelOver255(clip.img, 0)

\* A 4-channel array split, by default, into its colours and a mask.
C7_Witness ==
  /\ Built4
  /\ ~arg.is_mask /\ ~arg.fromalpha /\ arg.transparent
  /\ arg.img.shape = <<1, 2, 4>>
  /\ clip.mask # None
  /\ clip.mask.img.px[1][1] # clip.mask.img.px[1][2]

\* The buffer of the clip as it was constructed.
Buffer0 ==
  IF arg.ctor = "ImageClip"
  THEN ImageClip(arg.img, arg.is_mask, arg.transparent, arg.fromalpha).img
  ELSE ColorClip(arg.size, arg.color, arg.is_mask).clip.img

\* fs[n](.. fs[1](b) ..)
RECURSIVE Folded(_, _)
Folded(b, fs) == IF fs = <<>> THEN b ELSE Folded(Apply(fs[1].f, b), Tail(fs))

QueryTimes == {0, 1, 7}

\* C8: after any sequence of image_transform calls the clip's buffer, and
\* its frame at every time, is the last function applied to the result of the
\* one before, back to the constructed buffer; its size is that buffer's
\* (cols, rows); each call evaluated its function once on the clip's buffer
\* as it was then, and image_transform(f) evaluated f that one time only.
C8_TransformsCompose ==
  pc = "clip" =>
    /\ clip.img = Folded(Buffer0, hist)
    /\ clip.size = <<clip.img.shape[2], clip.img.shape[1]>>
    /\ \A t \in QueryTimes : make_frame(clip, t) = Folded(Buffer0, hist)
    /\ \A i \in 1..Len(hist) :
         LET mine == {k \in 1..Len(evals) : evals[k].call = i}
             own == {k \in mine : evals[k].on = Folded(Buffer0, SubSeq(hist, 1, i - 1))}
         IN /\ Cardinality(own) = 1
            /\ \A k \in mine : evals[k].f = hist[i].f
            /\ hist[i].apply_to = <<>> => Cardinality(mine) = 1

\* transpose, then crop: the crop was made of the transposed buffer.
C8_Witness ==
  /\ pc = "clip"
  /\ Len(hist) = 2
  /\ hist[1].f = "transpose" /\ hist[2].f = "crop"
  /\ clip.img = Apply("crop", Apply("transpose", Buffer0))
  /\ clip.img # Apply("crop", Buffer0)

\* C9: a ColorClip made with is_mask and no color is (h, w) of 1; one made
\* without is_mask and without a color is (h, w, 3) of 0.
C9_DefaultMaskIsOne ==
  (pc = "clip" /\ hist = <<>> /\ arg.ctor = "ColorClip" /\ arg.color.kind = "none") =>
    LET w == arg.size[1]
        h == arg.size[2]
    IN IF arg.is_mask
       THEN /\ clip.img.shape = <<h, w>>
            /\ \A r \in 1..h, c \in 1..w : clip.img.px[r][c] = <<1, 1>>
       ELSE /\ clip.img.shape = <<h, w, 3>>
            /\ \A r \in 1..h, c \in 1..w : clip.img.px[r][c] = <<<<0, 1>>, <<0, 1>>, <<0, 1>>>>

=============================================================================
